---- MODULE Spec2Model ----
(***************************************************************************)
(* Model of poster_exporter.py: the archive locator (extract_zip_to_temp), *)
(* the render pipeline (render_html_file_to_image) and the four Gradio     *)
(* handlers (process_local_path, preview_local_path, process_zip_upload,   *)
(* preview_zip_upload) with the scratch directories and output files they  *)
(* create.                                                                 *)
(*                                                                         *)
(* Strings are sequences of one-character strings, so that lower(),        *)
(* strip(), endswith() and the substring test are computed, not assumed.   *)
(* Archive members are regular files, given by their path relative to the  *)
(* extraction directory ("s/poster.html").                                 *)
(***************************************************************************)
EXTENDS Integers, Sequences, FiniteSets, TLC

VARIABLES
    pc,         \* pc[t]: position of handler thread t
    call,       \* call[t]: the invocation thread t is serving (function, arguments)
    loc,        \* loc[t]: local variables of the handler and of extract_zip_to_temp
    rs,         \* rs[t]: state of the render call (driver, browser, page, result)
    ret,        \* ret[t]: what the last invocation returned
    fs_dirs,    \* scratch directories that exist on disk
    fs_out,     \* output files (NamedTemporaryFile(delete=False)) that exist on disk
    ncalls,     \* number of invocations started so far
    zip_tree,   \* locator study: the extracted archive tree
    html_files, \* locator study: the list built at line 284
    html_file,  \* locator study: the file extract_zip_to_temp returns
    lpc         \* locator study: "start" | "selected" | "no_html"

vars == <<pc, call, loc, rs, ret, fs_dirs, fs_out, ncalls,
          zip_tree, html_files, html_file, lpc>>

hvars == <<pc, call, loc, rs, ret, fs_dirs, fs_out, ncalls>>
lvars == <<zip_tree, html_files, html_file, lpc>>

(***************************************************************************)
(* Bounds                                                                  *)
(***************************************************************************)
MaxCalls == 2
MaxTreeSize == 4

(***************************************************************************)
(* Strings                                                                 *)
(***************************************************************************)
UpperAlpha == <<"A","B","C","D","E","F","G","H","I","J","K","L","M",
                "N","O","P","Q","R","S","T","U","V","W","X","Y","Z">>
LowerAlpha == <<"a","b","c","d","e","f","g","h","i","j","k","l","m",
                "n","o","p","q","r","s","t","u","v","w","x","y","z">>

LowerChar(c) ==
    IF \E i \in 1..Len(UpperAlpha) : UpperAlpha[i] = c
    THEN LowerAlpha[CHOOSE i \in 1..Len(UpperAlpha) : UpperAlpha[i] = c]
    ELSE c

\* str.lower()
lower(s) == [i \in 1..Len(s) |-> LowerChar(s[i])]

\* str.endswith(suf)
endswith(s, suf) ==
    /\ Len(s) >= Len(suf)
    /\ SubSeq(s, Len(s) - Len(suf) + 1, Len(s)) = suf

\* sub in s
contains(s, sub) ==
    \E i \in 1..(Len(s) - Len(sub) + 1) : SubSeq(s, i, i + Len(sub) - 1) = sub

RECURSIVE lstrip(_)
lstrip(s) == IF s # <<>> /\ Head(s) = " " THEN lstrip(Tail(s)) ELSE s

RECURSIVE rstrip(_)
rstrip(s) ==
    IF s # <<>> /\ s[Len(s)] = " " THEN rstrip(SubSeq(s, 1, Len(s) - 1)) ELSE s

\* str.strip()
strip(s) == rstrip(lstrip(s))

HomeDir == <<"/","h">>

\* os.path.expanduser: a leading "~" (alone or before "/") becomes the home directory
expanduser(s) ==
    IF s # <<>> /\ Head(s) = "~" /\ (Len(s) = 1 \/ s[2] = "/")
    THEN HomeDir \o Tail(s)
    ELSE s

EXT_HTML == <<".","h","t","m","l">>
EXT_HTM  == <<".","h","t","m">>
EXT_ZIP  == <<".","z","i","p">>
KW_POSTER == <<"p","o","s","t","e","r">>
KW_INDEX  == <<"i","n","d","e","x">>

(***************************************************************************)
(* Paths inside an extracted archive                                       *)
(***************************************************************************)
RECURSIVE LastSlash(_, _)
LastSlash(p, i) == IF i = 0 THEN 0 ELSE IF p[i] = "/" THEN i ELSE LastSlash(p, i - 1)

\* Path.name: the last component
PathName(p) == SubSeq(p, LastSlash(p, Len(p)) + 1, Len(p))

\* f.parent == temp_dir: the member lies directly in the extraction directory
ParentIsTempDir(p) == LastSlash(p, Len(p)) = 0

\* temp_dir.rglob(pattern "*" + ext): the members whose name ends with ext
\* (the match is case-sensitive, as on POSIX)
rglob(tree, ext) == {p \in tree : endswith(PathName(p), ext)}

\* The orders in which a recursive directory walk may yield the members of S
Orders(S) ==
    {f \in [1..Cardinality(S) -> S] :
        \A i, j \in 1..Cardinality(S) : i # j => f[i] # f[j]}

\* Line 284: every listing list(rglob("*.html")) + list(rglob("*.htm")) can be
Listings(tree) ==
    {a \o b : a \in Orders(rglob(tree, EXT_HTML)), b \in Orders(rglob(tree, EXT_HTM))}

NameHasKeyword(p) ==
    \/ contains(lower(PathName(p)), KW_POSTER)
    \/ contains(lower(PathName(p)), KW_INDEX)

\* Faulty variant: the root-level test without its break
RECURSIVE SelectLoopNoBreak(_, _, _)
SelectLoopNoBreak(files, i, cur) ==
    IF i > Len(files) THEN cur
    ELSE IF ParentIsTempDir(files[i]) THEN SelectLoopNoBreak(files, i + 1, files[i])
    ELSE IF NameHasKeyword(files[i]) THEN SelectLoopNoBreak(files, i + 1, files[i])
    ELSE SelectLoopNoBreak(files, i + 1, cur)

\* Faulty variant: the keyword test compares the name without lower()
RECURSIVE SelectLoopCaseSensitive(_, _, _)
SelectLoopCaseSensitive(files, i, cur) ==
    IF i > Len(files) THEN cur
    ELSE IF ParentIsTempDir(files[i]) THEN files[i]
    ELSE IF contains(PathName(files[i]), KW_POSTER) \/ contains(PathName(files[i]), KW_INDEX)
         THEN SelectLoopCaseSensitive(files, i + 1, files[i])
    ELSE SelectLoopCaseSensitive(files, i + 1, cur)

\* Lines 291-296: the for loop, from index i with html_file = cur
RECURSIVE SelectLoop(_, _, _)
SelectLoop(files, i, cur) ==
    IF i > Len(files) THEN cur
    ELSE IF ParentIsTempDir(files[i]) THEN files[i]
    ELSE IF NameHasKeyword(files[i]) THEN SelectLoop(files, i + 1, files[i])
    ELSE SelectLoop(files, i + 1, cur)

\* Lines 290-298, for a non-empty listing
SelectHtml(files) == SelectLoop(files, 1, files[1])

(***************************************************************************)
(* Locator study: extract_zip_to_temp's choice over a family of archives   *)
(***************************************************************************)
P_report      == <<"r","e","p","o","r","t",".","h","t","m","l">>
P_poster_root == <<"p","o","s","t","e","r",".","h","t","m","l">>
P_page_htm    == <<"p","a","g","e",".","h","t","m">>
P_s_poster    == <<"s","/","p","o","s","t","e","r","-","f","i","n","a","l",".","h","t","m","l">>
P_s_report    == <<"s","/","r","e","p","o","r","t",".","h","t","m","l">>
P_s_notes     == <<"s","/","n","o","t","e","s",".","h","t","m","l">>
P_d_index     == <<"s","/","d","/","I","n","d","e","x",".","h","t","m">>
P_s_upper     == <<"s","/","O","L","D",".","H","T","M","L">>
P_img         == <<"i","m","g",".","p","n","g">>

TreePool == {P_report, P_poster_root, P_page_htm, P_s_poster, P_s_report,
             P_s_notes, P_d_index, P_s_upper, P_img}

LInit ==
    /\ zip_tree \in {T \in SUBSET TreePool : Cardinality(T) <= MaxTreeSize}
    /\ html_files = <<>>
    /\ html_file = <<>>
    /\ lpc = "start"

\* Lines 284-298 on the extracted tree
Locate ==
    /\ lpc = "start"
    /\ \E files \in Listings(zip_tree) :
          /\ html_files' = files
          /\ IF files = <<>>
             THEN /\ lpc' = "no_html"
                  /\ html_file' = <<>>
             ELSE /\ lpc' = "selected"
                  /\ html_file' = SelectHtml(files)
    /\ UNCHANGED <<zip_tree, hvars>>

(***************************************************************************)
(* Program constants                                                       *)
(***************************************************************************)
DEFAULT_WIDTH == 900
DEFAULT_HEIGHT == 1200
BASELINE_PPI == 96
PPI_FALLBACK == 300
PREVIEW_PPI == 72
SETTLE_MS == 2000

\* PPI_OPTIONS (the labels are abbreviated to their ASCII prefix)
PPI_OPTIONS ==
    [l \in {"72 PPI", "150 PPI", "300 PPI", "600 PPI"} |->
        CASE l = "72 PPI" -> 72
          [] l = "150 PPI" -> 150
          [] l = "300 PPI" -> 300
          [] l = "600 PPI" -> 600]

\* PPI_OPTIONS.get(ppi_choice, 300)
PpiGet(choice) ==
    IF choice \in DOMAIN PPI_OPTIONS THEN PPI_OPTIONS[choice] ELSE PPI_FALLBACK

\* device_scale_factor = ppi / 96.0, kept as an exact fraction
device_scale_factor(ppi) == [num |-> ppi, den |-> BASELINE_PPI]

(***************************************************************************)
(* The environment: local files, uploads, inputs                           *)
(***************************************************************************)
Threads == {1, 2}

L_empty   == <<>>
L_blank   == <<" ">>
L_tilde   == <<" ","~","/","a",".","h","t","m","l"," ">>
L_home_a  == <<"/","h","/","a",".","h","t","m","l">>
L_upper   == <<"b",".","H","T","M">>
L_dir     == <<"d",".","h","t","m","l">>
L_missing == <<"n",".","h","t","m","l">>
L_text    == <<"c",".","t","x","t">>

\* What lies on the local disk: path -> "file" | "dir"
LocalDisk == {<<L_home_a, "file">>, <<L_upper, "file">>, <<L_dir, "dir">>,
              <<L_text, "file">>}

\* os.path.exists
path_exists(p) == \E e \in LocalDisk : e[1] = p

LocalInputs == {L_empty, L_blank, L_tilde, L_upper, L_dir, L_missing, L_text}

Z_text    == <<"u",".","t","x","t">>
Z_corrupt == <<"b",".","Z","I","P">>
Z_nohtml  == <<"e",".","z","i","p">>
Z_root    == <<"r",".","z","i","p">>
Z_nested  == <<"n",".","z","i","p">>

\* An upload: file_obj (none = no file), whether zipfile can read it, its members
Uploads ==
    { [none |-> TRUE,  path |-> <<>>,      valid |-> FALSE, tree |-> {}],
      [none |-> FALSE, path |-> Z_text,    valid |-> FALSE, tree |-> {}],
      [none |-> FALSE, path |-> Z_corrupt, valid |-> FALSE, tree |-> {}],
      [none |-> FALSE, path |-> Z_nohtml,  valid |-> TRUE,  tree |-> {P_img}],
      [none |-> FALSE, path |-> Z_root,    valid |-> TRUE,  tree |-> {P_report, P_img}],
      [none |-> FALSE, path |-> Z_nested,  valid |-> TRUE,  tree |-> {P_s_report, P_s_poster}] }

ChoiceInputs == {"72 PPI", "600 PPI", "96 PPI"}
PpiInputs == {-96, 0, 150}

LocalFns == {"process_local_path", "preview_local_path"}
ZipFns == {"process_zip_upload", "preview_zip_upload"}
ExportFns == {"process_local_path", "process_zip_upload"}
RenderFn == "render_html_file_to_image"
AllFns == LocalFns \cup ZipFns \cup {RenderFn}

NoUpload == [none |-> TRUE, path |-> <<>>, valid |-> FALSE, tree |-> {}]

NoCall == [fn |-> "none", inv |-> 0, path |-> <<>>, upload |-> NoUpload,
           choice |-> "", ppi |-> 0]

NoLoc == [ppi |-> 0, path |-> <<>>, xdir |-> 0, temp_dir |-> 0, doc |-> <<>>,
          image_bytes |-> "none", output_path |-> 0, pend |-> "none"]

NoRs == [driver |-> FALSE, browser |-> "none", sessions |-> 0,
         ppi |-> 0, scale |-> device_scale_factor(0), viewport |-> <<0, 0>>,
         url |-> <<>>, styled |-> FALSE, waited |-> 0, fonts |-> "none",
         looked |-> FALSE, found |-> FALSE, shot |-> "none", full_page |-> FALSE,
         bytes |-> "none", exc |-> FALSE, fault |-> "none", trace |-> <<>>]

NoRet == [status |-> "none", path |-> 0, made |-> 0, wrote |-> 0, fn |-> "none"]

HInit ==
    /\ pc = [t \in Threads |-> "idle"]
    /\ call = [t \in Threads |-> NoCall]
    /\ loc = [t \in Threads |-> NoLoc]
    /\ rs = [t \in Threads |-> NoRs]
    /\ ret = [t \in Threads |-> NoRet]
    /\ fs_dirs = {}
    /\ fs_out = {}
    /\ ncalls = 0

LIdle ==
    /\ zip_tree = {}
    /\ html_files = <<>>
    /\ html_file = <<>>
    /\ lpc = "off"

(***************************************************************************)
(* A handler is invoked (a Gradio event, or a direct call of the renderer) *)
(***************************************************************************)
Invoke(t, fns, uploads, choices) ==
    /\ pc[t] = "idle"
    /\ ncalls < MaxCalls
    /\ ncalls' = ncalls + 1
    /\ \E fn \in fns :
          \/ /\ fn \in LocalFns
             /\ \E p \in LocalInputs, c \in choices :
                   /\ fn = "preview_local_path" => c = "72 PPI"
                   /\ call' = [call EXCEPT ![t] =
                         [NoCall EXCEPT !.fn = fn, !.inv = ncalls + 1,
                                        !.path = p, !.choice = c]]
          \/ /\ fn \in ZipFns
             /\ \E u \in uploads, c \in choices :
                   /\ fn = "preview_zip_upload" => c = "72 PPI"
                   /\ call' = [call EXCEPT ![t] =
                         [NoCall EXCEPT !.fn = fn, !.inv = ncalls + 1,
                                        !.upload = u, !.choice = c]]
          \/ /\ fn = RenderFn
             /\ \E p \in {L_home_a}, d \in PpiInputs :
                   call' = [call EXCEPT ![t] =
                         [NoCall EXCEPT !.fn = fn, !.inv = ncalls + 1,
                                        !.path = p, !.ppi = d]]
    /\ pc' = [pc EXCEPT ![t] = "h_check"]
    /\ loc' = [loc EXCEPT ![t] = NoLoc]
    /\ rs' = [rs EXCEPT ![t] = NoRs]
    /\ ret' = [ret EXCEPT ![t] = NoRet]
    /\ UNCHANGED <<fs_dirs, fs_out, lvars>>

\* The value a handler returns to Gradio (made, wrote: what the invocation left behind)
Returned(t, status, path) ==
    [status |-> status, path |-> path, made |-> loc[t].xdir,
     wrote |-> loc[t].output_path, fn |-> call[t].fn]

(***************************************************************************)
(* Input validation                                                        *)
(***************************************************************************)
\* local_path.lower().endswith(('.html', '.htm'))
IsHtmlPath(p) == endswith(lower(p), EXT_HTML) \/ endswith(lower(p), EXT_HTM)

\* Lines 303-315 and 352-362: the outcome of the checks on a local path
LocalCheck(raw) ==
    IF raw = <<>> \/ strip(raw) = <<>> THEN "prompt"
    ELSE IF ~path_exists(expanduser(strip(raw))) THEN "not_found"
    ELSE IF ~IsHtmlPath(expanduser(strip(raw))) THEN "unsupported"
    ELSE "render"

\* Lines 303-321 and 352-366
CheckLocal(t) ==
    /\ pc[t] = "h_check"
    /\ call[t].fn \in LocalFns
    /\ IF LocalCheck(call[t].path) = "render"
       THEN /\ loc' = [loc EXCEPT ![t] =
                  [@ EXCEPT !.path = expanduser(strip(call[t].path)),
                            !.doc = expanduser(strip(call[t].path)),
                            !.ppi = IF call[t].fn = "process_local_path"
                                    THEN PpiGet(call[t].choice)
                                    ELSE PREVIEW_PPI]]
            /\ pc' = [pc EXCEPT ![t] = "enter"]
            /\ UNCHANGED ret
       ELSE /\ ret' = [ret EXCEPT ![t] = Returned(t, LocalCheck(call[t].path), 0)]
            /\ pc' = [pc EXCEPT ![t] = "idle"]
            /\ UNCHANGED loc
    /\ UNCHANGED <<call, rs, fs_dirs, fs_out, ncalls, lvars>>

\* Lines 381-393 and 433-444
CheckZip(t) ==
    /\ pc[t] = "h_check"
    /\ call[t].fn \in ZipFns
    /\ IF call[t].upload.none
       THEN /\ ret' = [ret EXCEPT ![t] = Returned(t, "prompt", 0)]
            /\ pc' = [pc EXCEPT ![t] = "idle"]
            /\ UNCHANGED loc
       ELSE /\ loc' = [loc EXCEPT ![t] =
                  [@ EXCEPT !.path = call[t].upload.path,
                            !.ppi = IF call[t].fn = "process_zip_upload"
                                    THEN PpiGet(call[t].choice)
                                    ELSE PREVIEW_PPI,
                            !.pend = IF endswith(lower(call[t].upload.path), EXT_ZIP)
                                     THEN "none" ELSE "not_zip"]]
            /\ pc' = [pc EXCEPT ![t] =
                  IF endswith(lower(call[t].upload.path), EXT_ZIP)
                  THEN "x_mkdtemp" ELSE "h_finally"]
            /\ UNCHANGED ret
    /\ UNCHANGED <<call, rs, fs_dirs, fs_out, ncalls, lvars>>

\* A direct call of render_html_file_to_image(html_file_path, ppi)
CheckRender(t) ==
    /\ pc[t] = "h_check"
    /\ call[t].fn = RenderFn
    /\ loc' = [loc EXCEPT ![t] = [@ EXCEPT !.doc = call[t].path, !.ppi = call[t].ppi]]
    /\ pc' = [pc EXCEPT ![t] = "enter"]
    /\ UNCHANGED <<call, rs, ret, fs_dirs, fs_out, ncalls, lvars>>

(***************************************************************************)
(* extract_zip_to_temp                                                     *)
(***************************************************************************)
\* Faulty variant: a fixed directory name instead of a unique one
mkdtemp_fixed(inv) == 1

\* tempfile.mkdtemp(prefix="poster_export_"): a name no other call gets
mkdtemp(inv) == inv

\* Line 278
Mkdtemp(t) ==
    /\ pc[t] = "x_mkdtemp"
    /\ fs_dirs' = fs_dirs \cup {mkdtemp(call[t].inv)}
    /\ loc' = [loc EXCEPT ![t] = [@ EXCEPT !.xdir = mkdtemp(call[t].inv)]]
    /\ pc' = [pc EXCEPT ![t] = "x_extract"]
    /\ UNCHANGED <<call, rs, ret, fs_out, ncalls, lvars>>

\* Lines 280-298, then the caller's assignment (394, 445) or its except clause
Extract(t) ==
    /\ pc[t] = "x_extract"
    /\ IF ~call[t].upload.valid
       THEN \* zipfile raises: temp_dir of the caller is still None
            /\ loc' = [loc EXCEPT ![t] = [@ EXCEPT !.pend = "failed"]]
            /\ pc' = [pc EXCEPT ![t] = "h_finally"]
       ELSE \E files \in Listings(call[t].upload.tree) :
               IF files = <<>>
               THEN \* ValueError: temp_dir of the caller is still None
                    /\ loc' = [loc EXCEPT ![t] = [@ EXCEPT !.pend = "failed"]]
                    /\ pc' = [pc EXCEPT ![t] = "h_finally"]
               ELSE /\ loc' = [loc EXCEPT ![t] =
                          [@ EXCEPT !.temp_dir = loc[t].xdir,
                                    !.doc = SelectHtml(files)]]
                    /\ pc' = [pc EXCEPT ![t] = "enter"]
    /\ UNCHANGED <<call, rs, ret, fs_dirs, fs_out, ncalls, lvars>>

(***************************************************************************)
(* render_html_file_to_image: one action per awaited call                  *)
(***************************************************************************)
RenderPcs == {"enter", "launch", "new_context", "new_page", "goto", "add_style_tag",
              "wait_for_timeout", "fonts_ready", "query_selector", "screenshot",
              "close", "r_exit", "r_ret"}

\* Faulty variant: the style tag is added before the navigation
AfterStyleFirst(step) ==
    CASE step = "enter" -> "launch"
      [] step = "launch" -> "new_context"
      [] step = "new_context" -> "new_page"
      [] step = "new_page" -> "add_style_tag"
      [] step = "add_style_tag" -> "goto"
      [] step = "goto" -> "wait_for_timeout"
      [] step = "wait_for_timeout" -> "fonts_ready"
      [] step = "fonts_ready" -> "query_selector"
      [] step = "query_selector" -> "screenshot"
      [] step = "screenshot" -> "close"
      [] step = "close" -> "r_exit"

\* The statement that follows each awaited call in lines 215-266
After(step) ==
    CASE step = "enter" -> "launch"
      [] step = "launch" -> "new_context"
      [] step = "new_context" -> "new_page"
      [] step = "new_page" -> "goto"
      [] step = "goto" -> "add_style_tag"
      [] step = "add_style_tag" -> "wait_for_timeout"
      [] step = "wait_for_timeout" -> "fonts_ready"
      [] step = "fonts_ready" -> "query_selector"
      [] step = "query_selector" -> "screenshot"
      [] step = "screenshot" -> "close"
      [] step = "close" -> "r_exit"

\* The awaited call `step` returns: the render state becomes r and control moves on
Completes(t, step, r) ==
    /\ rs' = [rs EXCEPT ![t] = [r EXCEPT !.trace = Append(rs[t].trace, step)]]
    /\ pc' = [pc EXCEPT ![t] = After(step)]

\* The awaited call `step` raises inside the async with block: control leaves
\* the block through its exit
Raises(t, step) ==
    /\ rs' = [rs EXCEPT ![t] = [@ EXCEPT !.exc = TRUE, !.fault = step,
                                        !.trace = Append(@, step)]]
    /\ pc' = [pc EXCEPT ![t] = "r_exit"]

\* Lines 208-215: the scale factor, the file URL, and async_playwright().__aenter__
Enter(t) ==
    /\ pc[t] = "enter"
    /\ \/ /\ rs' = [rs EXCEPT ![t] =
                [@ EXCEPT !.ppi = loc[t].ppi,
                          !.scale = device_scale_factor(loc[t].ppi),
                          !.url = loc[t].doc,
                          !.driver = TRUE]]
          /\ pc' = [pc EXCEPT ![t] = After("enter")]
       \/ \* the driver does not start: nothing was entered, the call raises
          /\ rs' = [rs EXCEPT ![t] =
                [@ EXCEPT !.ppi = loc[t].ppi,
                          !.scale = device_scale_factor(loc[t].ppi),
                          !.url = loc[t].doc,
                          !.exc = TRUE, !.fault = "enter"]]
          /\ pc' = [pc EXCEPT ![t] = "r_ret"]
    /\ UNCHANGED <<call, loc, ret, fs_dirs, fs_out, ncalls, lvars>>

\* Line 216
Launch(t) ==
    /\ pc[t] = "launch"
    /\ \/ Completes(t, "launch", [rs[t] EXCEPT !.browser = "running",
                                               !.sessions = @ + 1])
       \/ Raises(t, "launch")
    /\ UNCHANGED <<call, loc, ret, fs_dirs, fs_out, ncalls, lvars>>

\* Lines 218-221
NewContext(t) ==
    /\ pc[t] = "new_context"
    /\ \/ Completes(t, "new_context",
             [rs[t] EXCEPT !.viewport = <<DEFAULT_WIDTH + 100, DEFAULT_HEIGHT + 200>>])
       \/ Raises(t, "new_context")
    /\ UNCHANGED <<call, loc, ret, fs_dirs, fs_out, ncalls, lvars>>

\* Line 223
NewPage(t) ==
    /\ pc[t] = "new_page"
    /\ \/ Completes(t, "new_page", rs[t])
       \/ Raises(t, "new_page")
    /\ UNCHANGED <<call, loc, ret, fs_dirs, fs_out, ncalls, lvars>>

\* Line 226: page.goto(file_url, wait_until="networkidle")
Goto(t) ==
    /\ pc[t] = "goto"
    /\ \/ Completes(t, "goto", rs[t])
       \/ Raises(t, "goto")
    /\ UNCHANGED <<call, loc, ret, fs_dirs, fs_out, ncalls, lvars>>

\* Lines 229-243
AddStyleTag(t) ==
    /\ pc[t] = "add_style_tag"
    /\ \/ Completes(t, "add_style_tag", [rs[t] EXCEPT !.styled = TRUE])
       \/ Raises(t, "add_style_tag")
    /\ UNCHANGED <<call, loc, ret, fs_dirs, fs_out, ncalls, lvars>>

\* Line 246: page.wait_for_timeout(2000)
WaitForTimeout(t) ==
    /\ pc[t] = "wait_for_timeout"
    /\ \/ Completes(t, "wait_for_timeout", [rs[t] EXCEPT !.waited = @ + SETTLE_MS])
       \/ Raises(t, "wait_for_timeout")
    /\ UNCHANGED <<call, loc, ret, fs_dirs, fs_out, ncalls, lvars>>

\* Faulty variant: the font wait without its try/except
FontsReadyUnguarded(t) ==
    /\ pc[t] = "fonts_ready"
    /\ \/ Completes(t, "fonts_ready", [rs[t] EXCEPT !.fonts = "ready"])
       \/ Raises(t, "fonts_ready")
    /\ UNCHANGED <<call, loc, ret, fs_dirs, fs_out, ncalls, lvars>>

\* Lines 247-250: page.evaluate("document.fonts.ready"); an exception is passed over
FontsReady(t) ==
    /\ pc[t] = "fonts_ready"
    /\ \/ Completes(t, "fonts_ready", [rs[t] EXCEPT !.fonts = "ready"])
       \/ Completes(t, "fonts_ready", [rs[t] EXCEPT !.fonts = "failed"])
    /\ UNCHANGED <<call, loc, ret, fs_dirs, fs_out, ncalls, lvars>>

\* Line 253: page.query_selector(poster_selector) returns an element or None
QuerySelector(t) ==
    /\ pc[t] = "query_selector"
    /\ \/ \E found \in BOOLEAN :
             Completes(t, "query_selector", [rs[t] EXCEPT !.looked = TRUE,
                                                          !.found = found])
       \/ Raises(t, "query_selector")
    /\ UNCHANGED <<call, loc, ret, fs_dirs, fs_out, ncalls, lvars>>

\* Faulty variant: the element's screenshot is taken without testing for None
CaptureUnguarded(found) ==
    IF found
    THEN [shot |-> "element", full_page |-> FALSE, raises |-> FALSE]
    ELSE [shot |-> "none", full_page |-> FALSE, raises |-> TRUE]

\* Lines 255-264: which screenshot is asked for
Capture(found) ==
    IF found
    THEN [shot |-> "element", full_page |-> FALSE, raises |-> FALSE]
    ELSE [shot |-> "page", full_page |-> FALSE, raises |-> FALSE]

\* What the screenshot call returns
ShotBytes(c) ==
    CASE c.shot = "element" -> "png_element"
      [] c.shot = "page" /\ ~c.full_page -> "png_viewport"
      [] c.shot = "page" /\ c.full_page -> "png_full_page"

\* Lines 255-264
Screenshot(t) ==
    /\ pc[t] = "screenshot"
    /\ IF Capture(rs[t].found).raises
       THEN /\ rs' = [rs EXCEPT ![t] = [@ EXCEPT !.exc = TRUE]]
            /\ pc' = [pc EXCEPT ![t] = "r_exit"]
       ELSE \/ Completes(t, "screenshot",
                  [rs[t] EXCEPT !.shot = Capture(rs[t].found).shot,
                                !.full_page = Capture(rs[t].found).full_page,
                                !.bytes = ShotBytes(Capture(rs[t].found))])
            \/ Raises(t, "screenshot")
    /\ UNCHANGED <<call, loc, ret, fs_dirs, fs_out, ncalls, lvars>>

\* Line 266
Close(t) ==
    /\ pc[t] = "close"
    /\ \/ Completes(t, "close", [rs[t] EXCEPT !.browser = "closed"])
       \/ Raises(t, "close")
    /\ UNCHANGED <<call, loc, ret, fs_dirs, fs_out, ncalls, lvars>>

\* Faulty variant: the driver is left running when the block is left
AexitLeak(r) == r

\* async_playwright().__aexit__: the driver is stopped, and with it every browser
\* it launched
Aexit(r) ==
    [r EXCEPT !.driver = FALSE,
              !.browser = IF @ = "running" THEN "closed" ELSE @]

\* Line 215, leaving the async with block (by return at 268, or by an exception)
ExitBlock(t) ==
    /\ pc[t] = "r_exit"
    /\ rs' = [rs EXCEPT ![t] = Aexit(rs[t])]
    /\ pc' = [pc EXCEPT ![t] = "r_ret"]
    /\ UNCHANGED <<call, loc, ret, fs_dirs, fs_out, ncalls, lvars>>

\* What outlives the call: the processes: its locals are gone
Leftover(r) == [NoRs EXCEPT !.driver = r.driver, !.browser = r.browser,
                            !.sessions = r.sessions]

\* sync_render_html_file_to_image returns to its caller (321, 366, 397, 446), or the
\* exception reaches the caller's except clause (345, 374, 419, 454)
RenderReturns(t) ==
    /\ pc[t] = "r_ret"
    /\ rs' = [rs EXCEPT ![t] = Leftover(rs[t])]
    /\ IF call[t].fn = RenderFn
       THEN /\ ret' = [ret EXCEPT ![t] =
                  Returned(t, IF rs[t].exc THEN "raised" ELSE rs[t].bytes, 0)]
            /\ pc' = [pc EXCEPT ![t] = "idle"]
            /\ UNCHANGED loc
       ELSE IF rs[t].exc
       THEN IF call[t].fn \in ZipFns
            THEN /\ loc' = [loc EXCEPT ![t] = [@ EXCEPT !.pend = "failed"]]
                 /\ pc' = [pc EXCEPT ![t] = "h_finally"]
                 /\ UNCHANGED ret
            ELSE /\ ret' = [ret EXCEPT ![t] = Returned(t, "failed", 0)]
                 /\ pc' = [pc EXCEPT ![t] = "idle"]
                 /\ UNCHANGED loc
       ELSE /\ loc' = [loc EXCEPT ![t] = [@ EXCEPT !.image_bytes = rs[t].bytes]]
            /\ pc' = [pc EXCEPT ![t] = "h_write"]
            /\ UNCHANGED ret
    /\ UNCHANGED <<call, fs_dirs, fs_out, ncalls, lvars>>

(***************************************************************************)
(* After the render: the output file, the decoded size, the cleanup        *)
(***************************************************************************)
\* The handler's return statement: a local handler returns at once, an archive
\* handler runs its finally clause first
Ends(t, l, status, path) ==
    IF call[t].fn \in ZipFns
    THEN /\ loc' = [loc EXCEPT ![t] = [l EXCEPT !.pend = status]]
         /\ pc' = [pc EXCEPT ![t] = "h_finally"]
         /\ UNCHANGED ret
    ELSE /\ loc' = [loc EXCEPT ![t] = l]
         /\ ret' = [ret EXCEPT ![t] =
               [status |-> status, path |-> path, made |-> l.xdir,
                wrote |-> l.output_path, fn |-> call[t].fn]]
         /\ pc' = [pc EXCEPT ![t] = "idle"]

\* Lines 325-330, 368-372, 400-405, 448-452: NamedTemporaryFile(delete=False)
WriteOutput(t) ==
    /\ pc[t] = "h_write"
    /\ fs_out' = fs_out \cup {call[t].inv}
    /\ IF call[t].fn \in ExportFns
       THEN /\ loc' = [loc EXCEPT ![t] = [@ EXCEPT !.output_path = call[t].inv]]
            /\ pc' = [pc EXCEPT ![t] = "h_decode"]
            /\ UNCHANGED ret
       ELSE Ends(t, [loc[t] EXCEPT !.output_path = call[t].inv], "ok", call[t].inv)
    /\ UNCHANGED <<call, rs, fs_dirs, ncalls, lvars>>

\* Lines 332-347 and 407-421: PIL is imported and Image.open reads the bytes, or
\* one of the two raises and the except clause returns no path
DecodeImage(t) ==
    /\ pc[t] = "h_decode"
    /\ \/ Ends(t, loc[t], "ok", loc[t].output_path)
       \/ Ends(t, loc[t], "failed", 0)
    /\ UNCHANGED <<call, rs, fs_dirs, fs_out, ncalls, lvars>>

\* Lines 424 and 459: the directory the finally clause looks at (0: temp_dir is None)
CleanupTarget(l) == l.temp_dir

\* Lines 423-428 and 458-463, then the pending return
Finally(t) ==
    /\ pc[t] = "h_finally"
    /\ IF CleanupTarget(loc[t]) # 0 /\ CleanupTarget(loc[t]) \in fs_dirs
       THEN \/ fs_dirs' = fs_dirs \ {CleanupTarget(loc[t])}
            \/ \* shutil.rmtree raises: passed over
               UNCHANGED fs_dirs
       ELSE UNCHANGED fs_dirs
    /\ ret' = [ret EXCEPT ![t] =
          Returned(t, loc[t].pend,
                   IF loc[t].pend = "ok" THEN loc[t].output_path ELSE 0)]
    /\ pc' = [pc EXCEPT ![t] = "idle"]
    /\ UNCHANGED <<call, loc, rs, fs_out, ncalls, lvars>>

(***************************************************************************)
(* Specifications                                                          *)
(***************************************************************************)
Render(t) ==
    \/ Enter(t) \/ Launch(t) \/ NewContext(t) \/ NewPage(t) \/ Goto(t)
    \/ AddStyleTag(t) \/ WaitForTimeout(t) \/ FontsReady(t) \/ QuerySelector(t)
    \/ Screenshot(t) \/ Close(t) \/ ExitBlock(t) \/ RenderReturns(t)

RunZip(t) ==
    \/ CheckZip(t) \/ Mkdtemp(t) \/ Extract(t) \/ Render(t)
    \/ WriteOutput(t) \/ DecodeImage(t) \/ Finally(t)

Run(t) == CheckLocal(t) \/ CheckRender(t) \/ RunZip(t)

\* One handler thread serving any of the entry points
Init == HInit /\ LIdle
Next == \E t \in {1} : Invoke(t, AllFns, Uploads, ChoiceInputs) \/ Run(t)
Spec == Init /\ [][Next]_vars

\* The archive handlers of the upload tab (zip_input.change, zip_preview_btn.click,
\* zip_export_btn.click) served by two threads at once
RaceUploads == {u \in Uploads : u.path \in {Z_corrupt, Z_root}}
NextZip == \E t \in Threads : Invoke(t, ZipFns, RaceUploads, {"72 PPI"}) \/ RunZip(t)
SpecZip == Init /\ [][NextZip]_vars

\* extract_zip_to_temp's selection alone
InitLocate == LInit /\ HInit
NextLocate == Locate
SpecLocate == InitLocate /\ [][NextLocate]_vars

(***************************************************************************)
(* Claims                                                                  *)
(***************************************************************************)
Range(q) == {q[i] : i \in 1..Len(q)}

IsPrefix(a, b) == Len(a) <= Len(b) /\ SubSeq(b, 1, Len(a)) = a

\* C1: when an archive invocation has returned, the scratch directory that its
\* extract_zip_to_temp created does not exist, on every path.
C1_ScratchGoneOnReturn ==
    \A t \in Threads :
        (pc[t] = "idle" /\ ret[t].fn \in ZipFns /\ ret[t].made # 0)
            => ret[t].made \notin fs_dirs

\* C2: a render asked for with density 0 or a negative density never gets as far
\* as a launched browser session.
C2_NonPositiveDensityRejected ==
    \A t \in Threads :
        (pc[t] \in RenderPcs /\ loc[t].ppi <= 0)
            => (rs[t].sessions = 0 /\ rs[t].browser = "none")

\* The members of an archive tree the claims call HTML files, and where they lie
\* (stated on the path itself, apart from the program's own tests)
HtmlMembers(tree) == {p \in tree : endswith(p, EXT_HTML) \/ endswith(p, EXT_HTM)}
AtArchiveRoot(p) == \A i \in 1..Len(p) : p[i] # "/"
NamedAs(p, name) == p = name \/ (Len(p) > Len(name) /\ endswith(p, <<"/">> \o name))
HasKeyword(p) ==
    \E k \in {KW_POSTER, KW_INDEX} : contains(lower(PathName(p)), k)

N_report == <<"r","e","p","o","r","t",".","h","t","m","l">>
N_poster_final == <<"p","o","s","t","e","r","-","f","i","n","a","l",".","h","t","m","l">>

\* The HTML files of the tree are named report.html and poster-final.html, both
\* names occur, and no poster-final.html lies at the root
ReportAndPosterFinal(tree) ==
    /\ \E p \in HtmlMembers(tree) : NamedAs(p, N_report)
    /\ \E p \in HtmlMembers(tree) : NamedAs(p, N_poster_final)
    /\ \A p \in HtmlMembers(tree) :
          \/ NamedAs(p, N_report)
          \/ NamedAs(p, N_poster_final) /\ ~AtArchiveRoot(p)

\* The priority: a root-level file; otherwise a file with "poster" or "index" in
\* its name; otherwise the first file of the listing
FollowsPriority ==
    lpc = "selected" =>
        IF \E p \in HtmlMembers(zip_tree) : AtArchiveRoot(p)
        THEN AtArchiveRoot(html_file)
        ELSE IF \E p \in HtmlMembers(zip_tree) : HasKeyword(p)
        THEN HasKeyword(html_file)
        ELSE html_file = html_files[1]

path_isfile(p) == <<p, "file">> \in LocalDisk

\* C5: for a direct-path request a browser session exists only if the path
\* exists, is a file and has an HTML extension.
C5_SessionOnlyForHtmlFile ==
    \A t \in Threads :
        (call[t].fn \in LocalFns /\ rs[t].browser # "none")
            => /\ path_exists(loc[t].path)
               /\ path_isfile(loc[t].path)
               /\ \/ endswith(lower(loc[t].path), EXT_HTML)
                  \/ endswith(lower(loc[t].path), EXT_HTM)

\* C6: once render_html_file_to_image has returned or raised, the browser session
\* it launched (at most one) and the driver behind it are no longer running.
C6_SessionTornDown ==
    \A t \in Threads :
        /\ rs[t].sessions <= 1
        /\ pc[t] \notin (RenderPcs \ {"r_ret"})
              => (rs[t].browser # "running" /\ ~rs[t].driver)

\* C6 witness: the navigation raised, and the call is about to raise to its
\* caller with the session it launched closed.
C6_Witness ==
    \E t \in Threads :
        /\ pc[t] = "r_ret"
        /\ rs[t].exc
        /\ rs[t].fault = "goto"
        /\ rs[t].sessions = 1
        /\ rs[t].browser = "closed"

\* C7: after the lookup, a missing element is no error: the viewport is captured
\* (not the full page) and those bytes are returned; a found element is captured
\* alone. The call then raises only if the screenshot or the close raises.
C7_AbsentSelectorFallsBack ==
    \A t \in Threads :
        (pc[t] \in RenderPcs /\ rs[t].looked) =>
            /\ rs[t].exc => rs[t].fault \in {"screenshot", "close"}
            /\ (rs[t].bytes # "none" /\ rs[t].found)
                  => (rs[t].shot = "element" /\ rs[t].bytes = "png_element")
            /\ (rs[t].bytes # "none" /\ ~rs[t].found)
                  => (rs[t].shot = "page" /\ ~rs[t].full_page
                      /\ rs[t].bytes = "png_viewport")
            /\ (pc[t] = "r_ret" /\ ~rs[t].exc) => rs[t].bytes # "none"

\* C7 witness: the selector matched nothing and the call returns the viewport's
\* bytes.
C7_Witness ==
    \E t \in Threads :
        /\ pc[t] = "r_ret"
        /\ rs[t].looked
        /\ ~rs[t].found
        /\ ~rs[t].exc
        /\ rs[t].bytes = "png_viewport"

\* C8: an export that ends in failure returns no output path and leaves no output
\* file of its own on disk.
C8_FailedExportLeavesNoOutput ==
    \A t \in Threads :
        (pc[t] = "idle" /\ ret[t].fn \in ExportFns /\ ret[t].status = "failed")
            => (ret[t].path = 0 /\ ret[t].wrote \notin fs_out)

ClaimedOrder == <<"launch", "goto", "add_style_tag", "wait_for_timeout",
                  "fonts_ready", "query_selector", "screenshot">>
IsClaimedStep(s) == s \in Range(ClaimedOrder)

\* C9: the steps of a render happen in the order launch, navigation, style
\* injection, settle delay, font wait, lookup, screenshot, each after the one
\* before; a render that got past the settle delay waited 2000 ms; a render
\* that returns has taken all of them.
C9_StrictOrder ==
    \A t \in Threads :
        /\ IsPrefix(SelectSeq(rs[t].trace, IsClaimedStep), ClaimedOrder)
        /\ (\E s \in {"fonts_ready", "query_selector", "screenshot"} :
                s \in Range(rs[t].trace)) => rs[t].waited = 2000
        /\ (pc[t] = "r_ret" /\ ~rs[t].exc)
              => SelectSeq(rs[t].trace, IsClaimedStep) = ClaimedOrder

\* C9 witness: a render that ran to its end.
C9_Witness ==
    \E t \in Threads :
        /\ pc[t] = "r_ret"
        /\ ~rs[t].exc
        /\ Len(rs[t].trace) = 10
        /\ rs[t].waited = 2000

\* C10: while an archive invocation's render is in progress, its scratch
\* directory exists, whatever the other thread's invocation does.
C10_ScratchOutlivesRender ==
    \A t \in Threads :
        (call[t].fn \in ZipFns /\ pc[t] \in RenderPcs)
            => (loc[t].temp_dir # 0 /\ loc[t].temp_dir \in fs_dirs)

\* C10 witness: one thread is in the middle of a render while an invocation the
\* other thread started later has finished and removed its own directory.
C10_Witness ==
    \E t, u \in Threads :
        /\ t # u
        /\ pc[t] = "goto"
        /\ loc[t].temp_dir \in fs_dirs
        /\ pc[u] = "idle"
        /\ ret[u].status = "ok"
        /\ ret[u].made > loc[t].temp_dir
        /\ ret[u].made \notin fs_dirs

\* What a render may hand to its caller as image bytes
ImageBytes == {"png_element", "png_viewport", "png_full_page"}

\* In the render of thread t: a failed font wait is not what makes the call raise,
\* the lookup and the screenshot still follow it, and a call that then raises
\* does so because a later step raised
FontFailurePassedOver(t) ==
    /\ rs[t].fault # "fonts_ready"
    /\ (pc[t] \in RenderPcs /\ rs[t].fonts = "failed") =>
          /\ pc[t] \in {"query_selector", "screenshot", "close", "r_exit", "r_ret"}
          /\ rs[t].exc => rs[t].fault \in {"query_selector", "screenshot", "close"}
          /\ (pc[t] = "r_ret" /\ ~rs[t].exc) =>
                /\ rs[t].bytes \in ImageBytes
                /\ {"query_selector", "screenshot"} \subseteq Range(rs[t].trace)

\* In the render of thread t: a step that raised leaves the call raising
OtherFailurePending(t) ==
    (pc[t] \in RenderPcs /\ rs[t].fault # "none") => rs[t].exc

\* The return of a render in which a step raised: the caller gets no bytes
NoBytesOnFailure(t) ==
    (pc[t] = "r_ret" /\ rs[t].fault # "none") =>
        /\ loc'[t].image_bytes = "none"
        /\ ret'[t].status \notin ImageBytes
        /\ pc'[t] \in {"idle", "h_finally"}

\* C11: a failure of the font-loading wait does not abort the render, which goes on
\* to the lookup and the screenshot and returns image bytes; a failure of any
\* other step reaches the caller, and no bytes are returned.
C11_OnlyFontFailureSwallowed ==
    /\ [](\A t \in Threads : FontFailurePassedOver(t) /\ OtherFailurePending(t))
    /\ [][\A t \in Threads : pc'[t] # pc[t] => NoBytesOnFailure(t)]_vars

\* C11 witness: the font wait failed and the call returns the bytes of the
\* screenshot taken after it.
C11_Witness ==
    \E t \in Threads :
        /\ pc[t] = "r_ret"
        /\ rs[t].fonts = "failed"
        /\ ~rs[t].exc
        /\ rs[t].bytes \in ImageBytes
        /\ {"query_selector", "screenshot"} \subseteq Range(rs[t].trace)

====
